---- MODULE Spec2Model ----
(***************************************************************************)
(* Model of project_structure_creator.py: the scaffold builder             *)
(* create_mlops_project_structure, the .gitignore writer                   *)
(* create_gitignore_content and the command line entry point main, run     *)
(* against a filesystem that may already hold entries.                     *)
(*                                                                         *)
(* A path is a record [abs, parts] as pathlib parses it ("a/b" has parts   *)
(* <<"a", "b">>); the filesystem is keyed by the parts of absolute paths.  *)
(***************************************************************************)
EXTENDS Integers, Sequences, FiniteSets, TLC

\* Bounds of the exploration.
MaxSeeds == 2
MaxCalls == 2

(***************************************************************************)
(* The layout table, the additional directories and the .gitignore text,   *)
(* verbatim from the source.                                               *)
(***************************************************************************)
structure ==
  <<
    [directory |-> <<>>,
     files |-> <<"README.md", "requirements.txt", "setup.py", ".env.example", ".gitignore", ".dvcignore", "dvc.yaml", "params.yaml", "mlproject", "docker-compose.yml", "Dockerfile">>],
    [directory |-> <<"config">>,
     files |-> <<"__init__.py", "app_config.yaml", "database_config.yaml", "spark_config.yaml", "mlflow_config.yaml", "evidently_config.yaml">>],
    [directory |-> <<"src">>,
     files |-> <<"__init__.py">>],
    [directory |-> <<"src", "entities">>,
     files |-> <<"__init__.py", "base_entity.py", "dataset_entity.py", "feature_entity.py", "model_entity.py", "experiment_entity.py", "prediction_entity.py", "report_entity.py", "pipeline_entity.py">>],
    [directory |-> <<"src", "repositories">>,
     files |-> <<"__init__.py", "base_repository.py", "mysql_repository.py", "mlflow_repository.py", "feature_repository.py", "dvc_repository.py", "evidently_repository.py">>],
    [directory |-> <<"src", "services">>,
     files |-> <<"__init__.py", "data_service.py", "feature_service.py", "training_service.py", "inference_service.py", "evaluation_service.py", "monitoring_service.py", "pipeline_service.py">>],
    [directory |-> <<"src", "factories">>,
     files |-> <<"__init__.py", "spark_factory.py", "model_factory.py", "feature_factory.py", "repository_factory.py", "service_factory.py">>],
    [directory |-> <<"src", "processors">>,
     files |-> <<"__init__.py", "data_processor.py", "feature_processor.py", "model_processor.py", "report_processor.py">>],
    [directory |-> <<"src", "utils">>,
     files |-> <<"__init__.py", "config_manager.py", "logger.py", "validator.py", "exceptions.py", "decorators.py">>],
    [directory |-> <<"tests">>,
     files |-> <<"__init__.py", "conftest.py">>],
    [directory |-> <<"tests", "unit">>,
     files |-> <<"__init__.py">>],
    [directory |-> <<"tests", "unit", "entities">>,
     files |-> <<"__init__.py">>],
    [directory |-> <<"tests", "unit", "repositories">>,
     files |-> <<"__init__.py">>],
    [directory |-> <<"tests", "unit", "services">>,
     files |-> <<"__init__.py">>],
    [directory |-> <<"tests", "unit", "processors">>,
     files |-> <<"__init__.py">>],
    [directory |-> <<"tests", "integration">>,
     files |-> <<"__init__.py", "test_database_integration.py", "test_mlflow_integration.py", "test_pipeline_integration.py">>],
    [directory |-> <<"tests", "fixtures">>,
     files |-> <<"__init__.py">>],
    [directory |-> <<"tests", "fixtures", "sample_datasets">>,
     files |-> <<>>],
    [directory |-> <<"tests", "fixtures", "mock_configs">>,
     files |-> <<>>],
    [directory |-> <<"notebooks">>,
     files |-> <<"01_data_exploration.ipynb", "02_feature_analysis.ipynb", "03_model_experimentation.ipynb", "04_monitoring_analysis.ipynb">>],
    [directory |-> <<"data">>,
     files |-> <<>>],
    [directory |-> <<"data", "raw">>,
     files |-> <<>>],
    [directory |-> <<"data", "processed">>,
     files |-> <<>>],
    [directory |-> <<"data", "features">>,
     files |-> <<>>],
    [directory |-> <<"data", "predictions">>,
     files |-> <<>>],
    [directory |-> <<"models">>,
     files |-> <<>>],
    [directory |-> <<"models", "experiments">>,
     files |-> <<>>],
    [directory |-> <<"models", "production">>,
     files |-> <<>>],
    [directory |-> <<"models", "staging">>,
     files |-> <<>>],
    [directory |-> <<"reports">>,
     files |-> <<>>],
    [directory |-> <<"reports", "data_validation">>,
     files |-> <<>>],
    [directory |-> <<"reports", "model_evaluation">>,
     files |-> <<>>],
    [directory |-> <<"reports", "drift_detection">>,
     files |-> <<>>],
    [directory |-> <<"reports", "performance_monitoring">>,
     files |-> <<>>],
    [directory |-> <<"pipelines">>,
     files |-> <<"__init__.py", "training_pipeline.py", "inference_pipeline.py", "monitoring_pipeline.py", "data_pipeline.py">>],
    [directory |-> <<"api">>,
     files |-> <<"__init__.py", "app.py">>],
    [directory |-> <<"api", "routes">>,
     files |-> <<"__init__.py", "prediction_routes.py", "model_routes.py", "monitoring_routes.py">>],
    [directory |-> <<"api", "middleware">>,
     files |-> <<"__init__.py", "auth_middleware.py", "logging_middleware.py">>],
    [directory |-> <<"deployment">>,
     files |-> <<>>],
    [directory |-> <<"deployment", "docker">>,
     files |-> <<"training.Dockerfile", "serving.Dockerfile", "monitoring.Dockerfile">>],
    [directory |-> <<"deployment", "kubernetes">>,
     files |-> <<"training-job.yaml", "serving-deployment.yaml", "monitoring-deployment.yaml">>],
    [directory |-> <<"deployment", "terraform">>,
     files |-> <<"main.tf", "variables.tf", "outputs.tf">>],
    [directory |-> <<"deployment", "scripts">>,
     files |-> <<"deploy_model.sh", "setup_infrastructure.sh", "rollback_model.sh">>],
    [directory |-> <<"monitoring">>,
     files |-> <<"__init__.py">>],
    [directory |-> <<"monitoring", "dashboards">>,
     files |-> <<"grafana_dashboard.json", "mlflow_dashboard.py">>],
    [directory |-> <<"monitoring", "alerts">>,
     files |-> <<"drift_alerts.yaml", "performance_alerts.yaml">>],
    [directory |-> <<"monitoring", "schedulers">>,
     files |-> <<"__init__.py", "monitoring_scheduler.py", "retraining_scheduler.py">>],
    [directory |-> <<"scripts">>,
     files |-> <<"setup_environment.sh", "initialize_project.py", "run_training.py", "run_inference.py", "run_monitoring.py", "data_migration.py", "model_deployment.py">>]
  >>

additional_dirs == <<"logs", "temp", ".dvc", "mlruns">>

\* The template, one element per line (each line ends with a newline).
gitignore_content ==
  <<
    "# Python", "__pycache__/", "*.py[cod]", "*$py.class",
    "*.so", ".Python", "build/", "develop-eggs/",
    "dist/", "downloads/", "eggs/", ".eggs/",
    "lib/", "lib64/", "parts/", "sdist/",
    "var/", "wheels/", "*.egg-info/", ".installed.cfg",
    "*.egg", "", "# Virtual environments", "venv/",
    "env/", "ENV/", ".venv/", ".env",
    "", "# IDEs", ".vscode/", ".idea/",
    "*.swp", "*.swo", "*~", "",
    "# Jupyter Notebooks", ".ipynb_checkpoints", "", "# MLflow",
    "mlruns/", "mlartifacts/", "", "# DVC",
    ".dvc/cache", ".dvc/tmp", ".dvc/plots", "",
    "# Data files (let DVC handle these)", "data/raw/*", "data/processed/*", "data/features/*",
    "!data/raw/.gitkeep", "!data/processed/.gitkeep", "!data/features/.gitkeep", "",
    "# Model artifacts (let DVC handle these)", "models/experiments/*", "models/production/*", "models/staging/*",
    "!models/experiments/.gitkeep", "!models/production/.gitkeep", "!models/staging/.gitkeep", "",
    "# Reports (let DVC handle large reports)", "reports/*/large_reports/", "", "# Temporary files",
    "temp/", "tmp/", "*.tmp", "",
    "# Logs", "logs/", "*.log", "",
    "# OS files", ".DS_Store", "Thumbs.db", "",
    "# Environment variables", ".env", ".env.local", ".env.production",
    "", "# Database", "*.db", "*.sqlite",
    "", "# Spark", "spark-warehouse/", "derby.log",
    "metastore_db/"
  >>

(***************************************************************************)
(* Paths.                                                                  *)
(***************************************************************************)
\* Working directory of the process.
cwd == <<"w">>

\* The values of project_name explored: a relative and an absolute spelling
\* of the same directory.
ProjectNames ==
  { [abs |-> FALSE, parts |-> <<"demo-project">>],
    [abs |-> TRUE,  parts |-> <<"w", "demo-project">>] }

\* Variant: Path(project_name).absolute().
PathMadeAbsolute(name) ==
  [abs |-> TRUE, parts |-> IF name.abs THEN name.parts ELSE cwd \o name.parts]

\* Path(project_name): pathlib keeps the path as it was spelled.
Path(name) == [abs |-> name.abs, parts |-> name.parts]

\* Path.absolute(): a relative path is anchored at the working directory.
absolute(p) == IF p.abs THEN p ELSE [abs |-> TRUE, parts |-> cwd \o p.parts]

\* The / operator of pathlib.
Div(p, segs) == [abs |-> p.abs, parts |-> p.parts \o segs]

\* The key under which the operating system finds path p.
Resolve(p) == absolute(p).parts

Parent(key) == SubSeq(key, 1, Len(key) - 1)

Prefixes(key) == { SubSeq(key, 1, n) : n \in 0..Len(key) }

IsPrefix(a, b) == Len(a) <= Len(b) /\ SubSeq(b, 1, Len(a)) = a

NoPath == [abs |-> FALSE, parts |-> <<>>]

(***************************************************************************)
(* Filesystem entries.                                                     *)
(***************************************************************************)
None == [kind |-> "none", content |-> <<>>, writable |-> FALSE]

Dir(w) == [kind |-> "dir", content |-> <<>>, writable |-> w]

File(c) == [kind |-> "file", content |-> c, writable |-> TRUE]

RootKey == <<"w", "demo-project">>

DeclaredDirKeys ==
  { RootKey \o structure[n].directory : n \in 1..Len(structure) }

DeclaredFileKeys ==
  UNION { { RootKey \o structure[n].directory \o <<structure[n].files[m]>> :
              m \in 1..Len(structure[n].files) } : n \in 1..Len(structure) }

AdditionalKeys ==
  { RootKey \o <<additional_dirs[n]>> : n \in 1..Len(additional_dirs) }

GitignoreKey == RootKey \o <<".gitignore">>

(***************************************************************************)
(* Entries the filesystem may hold before the first call.  Each seed puts  *)
(* one entry below the root; its missing ancestors are directories.        *)
(***************************************************************************)
SeedPool ==
  { [key |-> <<"README.md">>, entry |-> File(<<"hello">>)],
    [key |-> <<"README.md">>, entry |-> Dir(TRUE)],
    [key |-> <<".gitignore">>, entry |-> File(<<"*.secret">>)],
    [key |-> <<".gitignore">>, entry |-> Dir(TRUE)],
    [key |-> <<"data">>, entry |-> File(<<"1,2">>)],
    [key |-> <<"data", "raw">>, entry |-> Dir(TRUE)],
    [key |-> <<"logs">>, entry |-> File(<<>>)],
    [key |-> <<"config">>, entry |-> Dir(FALSE)],
    [key |-> <<"scratch", "a.txt">>, entry |-> File(<<"x">>)] }

UserKeys == { RootKey \o s.key : s \in SeedPool }

Universe ==
  UNION { Prefixes(key) :
            key \in DeclaredDirKeys \cup DeclaredFileKeys \cup AdditionalKeys
                      \cup UserKeys }

Compatible(S) ==
  \A s, t \in S :
    s # t => /\ s.key # t.key
             /\ ~(IsPrefix(s.key, t.key) /\ s.entry.kind = "file")

SeedSets ==
  { S \in SUBSET SeedPool : Cardinality(S) <= MaxSeeds /\ Compatible(S) }

\* The filesystem with the root of the given kind and the seeds in S.
MkFs(rootKind, S) ==
  [key \in Universe |->
     IF ~IsPrefix(RootKey, key) THEN Dir(TRUE)
     ELSE IF key = RootKey
       THEN (IF rootKind = "dir" THEN Dir(TRUE)
             ELSE IF rootKind = "rodir" THEN Dir(FALSE)
             ELSE IF rootKind = "file" THEN File(<<>>) ELSE None)
     ELSE IF \E s \in S : RootKey \o s.key = key
       THEN (CHOOSE s \in S : RootKey \o s.key = key).entry
     ELSE IF \E s \in S : IsPrefix(key, RootKey \o s.key)
       THEN Dir(TRUE)
     ELSE None]

InitialFilesystems ==
  { MkFs(r, {}) : r \in {"none", "file", "rodir"} }
    \cup { MkFs("dir", S) : S \in SeedSets }

(***************************************************************************)
(* System calls and the pathlib methods built on them.  Every operation    *)
(* returns the filesystem it leaves and an error name ("" for success).    *)
(***************************************************************************)
Ok(f) == [fs |-> f, err |-> ""]

Err(f, e) == [fs |-> f, err |-> e]

\* Why the directory part of key cannot be walked ("" if it can).
LookupErr(f, key) ==
  LET bad == { n \in 0..(Len(key) - 1) : f[SubSeq(key, 1, n)].kind # "dir" }
  IN  IF bad = {} THEN ""
      ELSE LET n == CHOOSE x \in bad : \A y \in bad : x <= y
           IN  IF f[SubSeq(key, 1, n)].kind = "file" THEN "ENOTDIR"
               ELSE "ENOENT"

is_dir(f, key) == LookupErr(f, key) = "" /\ f[key].kind = "dir"

\* Variant: a file in the way is replaced by the directory.
os_mkdir_replacing(f, key) ==
  IF LookupErr(f, key) # "" THEN Err(f, LookupErr(f, key))
  ELSE IF f[key].kind = "dir" THEN Err(f, "EEXIST")
  ELSE IF ~f[Parent(key)].writable THEN Err(f, "EACCES")
  ELSE Ok([f EXCEPT ![key] = Dir(TRUE)])

os_mkdir(f, key) ==
  IF LookupErr(f, key) # "" THEN Err(f, LookupErr(f, key))
  ELSE IF f[key].kind # "none" THEN Err(f, "EEXIST")
  ELSE IF ~f[Parent(key)].writable THEN Err(f, "EACCES")
  ELSE Ok([f EXCEPT ![key] = Dir(TRUE)])

\* Variant: os.mkdir called directly, without exist_ok or parents.
mkdir_bare(f, key, parents, exist_ok) == os_mkdir(f, key)

\* Variant: the parents flag is not passed.
mkdir_without_parents(f, key, parents, exist_ok) ==
  LET r == os_mkdir(f, key)
  IN  IF r.err = "" THEN r
      ELSE IF r.err = "ENOENT" THEN r
      ELSE IF ~exist_ok \/ ~is_dir(f, key) THEN r
      ELSE Ok(f)

RECURSIVE mkdir(_, _, _, _)
\* pathlib.Path.mkdir(parents, exist_ok)
mkdir(f, key, parents, exist_ok) ==
  LET r == os_mkdir(f, key)
  IN  IF r.err = "" THEN r
      ELSE IF r.err = "ENOENT"
        THEN IF ~parents \/ Len(key) = 0 THEN r
             ELSE LET up == mkdir(f, Parent(key), TRUE, TRUE)
                  IN  IF up.err # "" THEN up
                      ELSE mkdir(up.fs, key, FALSE, exist_ok)
      ELSE IF ~exist_ok \/ ~is_dir(f, key) THEN r
      ELSE Ok(f)

\* Variant: open(path, 'a'), which keeps what the file holds.
open_a(f, key) ==
  IF LookupErr(f, key) # "" THEN Err(f, LookupErr(f, key))
  ELSE IF f[key].kind = "dir" THEN Err(f, "EISDIR")
  ELSE IF f[key].kind = "file" THEN Ok(f)
  ELSE IF ~f[Parent(key)].writable THEN Err(f, "EACCES")
  ELSE Ok([f EXCEPT ![key] = File(<<>>)])

\* open(path, 'w'): create or truncate.
open_w(f, key) ==
  IF LookupErr(f, key) # "" THEN Err(f, LookupErr(f, key))
  ELSE IF f[key].kind = "dir" THEN Err(f, "EISDIR")
  ELSE IF f[key].kind = "file" THEN Ok([f EXCEPT ![key] = File(<<>>)])
  ELSE IF ~f[Parent(key)].writable THEN Err(f, "EACCES")
  ELSE Ok([f EXCEPT ![key] = File(<<>>)])

\* Variant: the file is made with open(path, 'w').close().
touch_truncating(f, key) == open_w(f, key)

\* pathlib.Path.touch(): os.utime on an existing entry, else create it.
touch(f, key) ==
  IF LookupErr(f, key) # "" THEN Err(f, LookupErr(f, key))
  ELSE IF f[key].kind # "none" THEN Ok(f)
  ELSE IF ~f[Parent(key)].writable THEN Err(f, "EACCES")
  ELSE Ok([f EXCEPT ![key] = File(<<>>)])

\* f.write(text) on the file opened at key.
write(f, key, lines) == [f EXCEPT ![key].content = @ \o lines]

\* create_gitignore_content(project_path), without its print.
WriteGitignore(f, project_path) ==
  LET key == Resolve(Div(project_path, <<".gitignore">>))
      o == open_w(f, key)
  IN  IF o.err # "" THEN o
      ELSE Ok(write(o.fs, key, gitignore_content))

(***************************************************************************)
(* Layout tables.  Layouts[1] is the table of the source; the others list  *)
(* the same directories in reverse order, and without the keys that only   *)
(* name the parent of another key.                                         *)
(***************************************************************************)
Reversed(t) == [n \in 1..Len(t) |-> t[Len(t) + 1 - n]]

OnlyAParent(t, e) ==
  /\ e.files = <<>>
  /\ \E n \in 1..Len(t) :
       /\ t[n].directory # e.directory
       /\ IsPrefix(e.directory, t[n].directory)

WithoutParents(t) == SelectSeq(t, LAMBDA e : ~OnlyAParent(t, e))

Layouts == <<structure, Reversed(structure), WithoutParents(structure)>>

RECURSIVE SumFiles(_)
\* sum(len(files) for files in structure.values())
SumFiles(t) ==
  IF t = <<>> THEN 0 ELSE Len(Head(t).files) + SumFiles(Tail(t))

\* len([d for d in structure.keys() if d])
CountDirs(t) == Cardinality({ n \in 1..Len(t) : t[n].directory # <<>> })

(***************************************************************************)
(* Printed lines.                                                          *)
(***************************************************************************)
Line(tag, path, n) == [tag |-> tag, path |-> path, n |-> n]

SummaryLines(t, project_path) ==
  << Line("success", NoPath, 0),
     Line("location", absolute(project_path), 0),
     Line("total_dirs", NoPath, CountDirs(t)),
     Line("total_files", NoPath, SumFiles(t)) >>

ReadyLines(name) ==
  << Line("ready", NoPath, 0), Line("next_steps", NoPath, 0),
     Line("step", Path(name), 1), Line("step", NoPath, 2),
     Line("step", NoPath, 3), Line("step", NoPath, 4),
     Line("step", NoPath, 5), Line("step", NoPath, 6) >>

(***************************************************************************)
(* State.                                                                  *)
(***************************************************************************)
VARIABLES
  fs,                \* the filesystem: key -> entry
  project_name,      \* the --project-name argument
  create_gitignore,  \* the --create-gitignore flag of the current run
  layout,            \* which of Layouts the builder iterates over
  caller,            \* "main" or "direct": who runs the current call
  pc,                \* the statement the current call is at
  at,                \* the statement that raised, when pc = "raised"
  i, j, k,           \* positions in the table, the file list, additional_dirs
  out,               \* lines printed by the current call
  ret,               \* value returned by create_mlops_project_structure
  rendered,          \* the current call has run create_gitignore_content
  calls,             \* number of calls started
  pre,               \* the filesystem when the current call started
  haveLast           \* the latest write to the filesystem was made by a
                     \* build that returned

vars ==
  <<fs, project_name, create_gitignore, layout, caller, pc, at, i, j, k, out,
    ret, rendered, calls, pre, haveLast>>

Table == Layouts[layout]

\* project_path = Path(project_name)
project_path == Path(project_name)

BuildPcs == {"mkroot", "loop", "files", "summary", "additional", "return"}

InitWith(names, layouts) ==
  /\ fs \in InitialFilesystems
  /\ project_name \in names
  /\ layout \in layouts
  /\ create_gitignore = FALSE
  /\ caller = "direct"
  /\ pc = "idle"
  /\ at = ""
  /\ i = 0 /\ j = 0 /\ k = 0
  /\ out = <<>>
  /\ ret = NoPath
  /\ rendered = FALSE
  /\ calls = 0
  /\ pre = fs
  /\ haveLast = FALSE

Init == InitWith(ProjectNames, {1})

\* The relative project name with the table in each order of Layouts.
InitLayouts ==
  InitWith({ name \in ProjectNames : ~name.abs }, 1..Len(Layouts))

\* An exception leaves the call; nothing catches it.
Raise(f) ==
  /\ fs' = f
  /\ pc' = "raised"
  /\ at' = pc
  /\ UNCHANGED <<project_name, create_gitignore, layout, caller, i, j, k, out,
                 ret, rendered, calls, pre, haveLast>>

\* Where the loops continue after file m of table entry n.
AfterFile(n, m) ==
  IF m < Len(Table[n].files) THEN [pc |-> "files", i |-> n, j |-> m + 1]
  ELSE IF n < Len(Table) THEN [pc |-> "loop", i |-> n + 1, j |-> 0]
  ELSE [pc |-> "summary", i |-> 0, j |-> 0]

(***************************************************************************)
(* main: a run of the command line program.                                *)
(***************************************************************************)
Main(flag) ==
  /\ pc \in {"idle", "raised"}
  /\ calls < MaxCalls
  /\ calls' = calls + 1
  /\ create_gitignore' = flag
  /\ caller' = "main"
  /\ pc' = "mkroot"
  /\ at' = ""
  /\ i' = 0 /\ j' = 0 /\ k' = 0
  /\ out' = <<>>
  /\ ret' = NoPath
  /\ rendered' = FALSE
  /\ pre' = fs
  /\ UNCHANGED <<fs, project_name, layout, haveLast>>

(***************************************************************************)
(* create_mlops_project_structure                                          *)
(***************************************************************************)
\* project_path.mkdir(exist_ok=True); print
MkRoot ==
  /\ pc = "mkroot"
  /\ LET r == mkdir(fs, Resolve(project_path), FALSE, TRUE)
     IN  IF r.err # "" THEN Raise(r.fs)
         ELSE /\ fs' = r.fs
              /\ out' = Append(out, Line("creating", absolute(project_path), 0))
              /\ pc' = "loop"
              /\ i' = 1
              /\ UNCHANGED <<project_name, create_gitignore, layout, caller,
                             at, j, k, ret, rendered, calls, pre, haveLast>>

\* One pass of the outer loop up to its inner loop.
NextDirectory ==
  /\ pc = "loop"
  /\ LET directory == Table[i].directory
         dir_path == Div(project_path, directory)
         r == IF directory # <<>>
                THEN mkdir(fs, Resolve(dir_path), TRUE, TRUE)
                ELSE Ok(fs)
         next == AfterFile(i, 0)
     IN  IF r.err # "" THEN Raise(r.fs)
         ELSE /\ fs' = r.fs
              /\ out' = IF directory # <<>>
                          THEN Append(out, Line("dir", dir_path, 0))
                          ELSE out
              /\ pc' = next.pc
              /\ i' = next.i
              /\ j' = next.j
              /\ UNCHANGED <<project_name, create_gitignore, layout, caller,
                             at, k, ret, rendered, calls, pre, haveLast>>

\* One pass of the inner loop.
NextFile ==
  /\ pc = "files"
  /\ LET dir_path == Div(project_path, Table[i].directory)
         file_path == Div(dir_path, <<Table[i].files[j]>>)
         r == touch(fs, Resolve(file_path))
         next == AfterFile(i, j)
     IN  IF r.err # "" THEN Raise(r.fs)
         ELSE /\ fs' = r.fs
              /\ out' = Append(out, Line("file", file_path, 0))
              /\ pc' = next.pc
              /\ i' = next.i
              /\ j' = next.j
              /\ UNCHANGED <<project_name, create_gitignore, layout, caller,
                             at, k, ret, rendered, calls, pre, haveLast>>

\* The four summary prints.
Summary ==
  /\ pc = "summary"
  /\ out' = out \o SummaryLines(Table, project_path)
  /\ pc' = "additional"
  /\ k' = 1
  /\ UNCHANGED <<fs, project_name, create_gitignore, layout, caller, at, i, j,
                 ret, rendered, calls, pre, haveLast>>

\* One pass of the loop over additional_dirs.
AdditionalDir ==
  /\ pc = "additional"
  /\ LET additional_path == Div(project_path, <<additional_dirs[k]>>)
         r == mkdir(fs, Resolve(additional_path), FALSE, TRUE)
     IN  IF r.err # "" THEN Raise(r.fs)
         ELSE /\ fs' = r.fs
              /\ out' = Append(out, Line("additional", additional_path, 0))
              /\ IF k < Len(additional_dirs)
                   THEN pc' = "additional" /\ k' = k + 1
                   ELSE pc' = "return" /\ k' = 0
              /\ UNCHANGED <<project_name, create_gitignore, layout, caller,
                             at, i, j, ret, rendered, calls, pre, haveLast>>

\* return project_path
Return ==
  /\ pc = "return"
  /\ ret' = project_path
  /\ haveLast' = TRUE
  /\ pc' = "gitignore"
  /\ UNCHANGED <<fs, project_name, create_gitignore, layout, caller, at, i, j,
                 k, out, rendered, calls, pre>>

(***************************************************************************)
(* create_gitignore_content                                                *)
(***************************************************************************)
\* The body of create_gitignore_content(path), entered at statement pc and
\* continuing at statement then.
GitignoreBody(path, then) ==
  LET r == WriteGitignore(fs, path)
  IN  /\ rendered' = TRUE
      /\ haveLast' = FALSE
      /\ IF r.err # ""
           THEN /\ fs' = r.fs
                /\ pc' = "raised"
                /\ at' = pc
                /\ out' = out
           ELSE /\ fs' = r.fs
                /\ pc' = then
                /\ at' = at
                /\ out' = Append(out, Line("gitignore", NoPath, 0))

\* main: if args.create_gitignore: create_gitignore_content(project_path)
MainGitignore ==
  /\ pc = "gitignore"
  /\ create_gitignore
  /\ GitignoreBody(ret, "ready")
  /\ UNCHANGED <<project_name, create_gitignore, layout, caller, i, j, k, ret,
                 calls, pre>>

\* Variant: the flag is not consulted.
MainGitignoreAnyway ==
  /\ pc = "gitignore"
  /\ ~create_gitignore
  /\ GitignoreBody(ret, "ready")
  /\ UNCHANGED <<project_name, create_gitignore, layout, caller, i, j, k, ret,
                 calls, pre>>

MainNoGitignore ==
  /\ pc = "gitignore"
  /\ ~create_gitignore
  /\ pc' = "ready"
  /\ UNCHANGED <<fs, project_name, create_gitignore, layout, caller, at, i, j,
                 k, out, ret, rendered, calls, pre, haveLast>>

\* main: the closing prints.
MainReady ==
  /\ pc = "ready"
  /\ out' = out \o ReadyLines(project_name)
  /\ pc' = "idle"
  /\ UNCHANGED <<fs, project_name, create_gitignore, layout, caller, at, i, j,
                 k, ret, rendered, calls, pre, haveLast>>

\* create_gitignore_content(Path(project_name)) called on its own.
Render ==
  /\ pc \in {"idle", "raised"}
  /\ calls < MaxCalls
  /\ calls' = calls + 1
  /\ caller' = "direct"
  /\ create_gitignore' = FALSE
  /\ i' = 0 /\ j' = 0 /\ k' = 0
  /\ ret' = NoPath
  /\ pre' = fs
  /\ LET r == WriteGitignore(fs, project_path)
     IN  /\ fs' = r.fs
         /\ rendered' = TRUE
         /\ haveLast' = FALSE
         /\ IF r.err # ""
              THEN pc' = "raised" /\ at' = "render" /\ out' = <<>>
              ELSE /\ pc' = "idle" /\ at' = ""
                   /\ out' = <<Line("gitignore", NoPath, 0)>>
  /\ UNCHANGED <<project_name, layout>>

Next ==
  \/ \E flag \in BOOLEAN : Main(flag)
  \/ MkRoot
  \/ NextDirectory
  \/ NextFile
  \/ Summary
  \/ AdditionalDir
  \/ Return
  \/ MainGitignore
  \/ MainNoGitignore
  \/ MainReady
  \/ Render

Spec == Init /\ [][Next]_vars

SpecLayouts == InitLayouts /\ [][Next]_vars

(***************************************************************************)
(* Vocabulary of the properties.                                           *)
(***************************************************************************)
ReadmeKey == RootKey \o <<"README.md">>

ScratchKey == RootKey \o <<"scratch", "a.txt">>

DataKey == RootKey \o <<"data">>

\* The current call is a build that has run to its return statement.
BuildSucceeded == pc = "return"

\* The current call is a build that an exception has left.
BuildAborted == pc = "raised" /\ at \in BuildPcs

\* create_gitignore_content raised in the current call.
RenderAborted == pc = "raised" /\ at \in {"gitignore", "render"}

ProgressTags == {"dir", "file", "additional"}

SummaryTags == {"success", "location", "total_dirs", "total_files"}

LinesFor(tag, path) ==
  { n \in 1..Len(out) : out[n].tag = tag /\ out[n].path = path }

\* Every directory the layout asks for: the root, the keys, their parents,
\* and the additional directories.
NeededDirs ==
  { key \in Universe :
      /\ IsPrefix(RootKey, key)
      /\ \E d \in DeclaredDirKeys \cup AdditionalKeys : IsPrefix(key, d) }

\* The filesystem a successful build leaves when started on f, stated from
\* the set of declared paths alone.
Expected(f) ==
  [key \in Universe |->
     IF key \in NeededDirs
       THEN (IF f[key].kind = "dir" THEN f[key] ELSE Dir(TRUE))
     ELSE IF key \in DeclaredFileKeys /\ f[key].kind = "none"
       THEN File(<<>>)
     ELSE f[key]]

\* f holds an entry that makes some creation of the build fail: a file
\* where a directory is needed, or a missing entry in a read-only directory.
Blocked(f) ==
  \/ \E key \in NeededDirs : f[key].kind = "file"
  \/ \E key \in NeededDirs \cup DeclaredFileKeys :
       /\ f[key].kind = "none"
       /\ f[Parent(key)].kind = "dir"
       /\ ~f[Parent(key)].writable

\* The keys the layout table and additional_dirs name, with their parents.
DeclaredKeys == NeededDirs \cup DeclaredFileKeys

ParentClosed(f) ==
  \A key \in Universe :
    (f[key].kind # "none" /\ Len(key) > 0) => f[Parent(key)].kind = "dir"

(***************************************************************************)
(* Properties.                                                             *)
(***************************************************************************)

\* C1: when build returns without error, the root, every directory key of
\* the layout table and every additional directory is a directory, and every
\* declared (directory, file) pair is a regular file.
C1_DeclaredEntriesExist ==
  BuildSucceeded =>
    /\ fs[RootKey].kind = "dir"
    /\ \A key \in DeclaredDirKeys \cup AdditionalKeys : fs[key].kind = "dir"
    /\ \A key \in DeclaredFileKeys : fs[key].kind = "file"

\* C2: when build returns, a declared file that existed before the call has
\* the content it had, and one that did not exist is an empty file; and at
\* no point of a build, finished or aborted, has the content of a file
\* that existed before the call changed.
C2_ContentPreserved ==
  /\ BuildSucceeded =>
       \A key \in DeclaredFileKeys :
         /\ pre[key].kind = "file" => fs[key] = pre[key]
         /\ pre[key].kind = "none" => fs[key] = File(<<>>)
  /\ (pc \in BuildPcs \/ BuildAborted) =>
       \A key \in Universe : pre[key].kind = "file" => fs[key] = pre[key]

C2_Witness ==
  /\ BuildSucceeded
  /\ pre[ReadmeKey] = File(<<"hello">>)
  /\ fs[ReadmeKey] = File(<<"hello">>)
  /\ pre[GitignoreKey].kind = "none"
  /\ fs[GitignoreKey] = File(<<>>)

\* C3: a build that directly follows a successful build of the same project
\* raises no error and returns with the filesystem (kinds and contents)
\* exactly as the first build left it, which is the filesystem it started on.
C3_Idempotent ==
  haveLast =>
    /\ ~BuildAborted
    /\ BuildSucceeded => fs = pre

C3_Witness ==
  /\ haveLast
  /\ BuildSucceeded
  /\ calls = 2
  /\ fs[ReadmeKey].kind = "file"

\* C4: create_gitignore_content on an existing root whose .gitignore is
\* absent or a file (of any content) does not fail when the entry can be
\* created, and whenever it returns the file holds exactly the template.
C4_RenderOverwrites ==
  rendered =>
    /\ ~RenderAborted => fs[GitignoreKey] = File(gitignore_content)
    /\ (fs[RootKey] = Dir(TRUE) /\ fs[GitignoreKey].kind # "dir")
         => ~RenderAborted

C4_Witness ==
  /\ rendered
  /\ caller = "direct"
  /\ pc = "idle"
  /\ pre[GitignoreKey] = File(<<"*.secret">>)
  /\ fs[GitignoreKey] = File(gitignore_content)

\* C5 (as stated): the value build returns is the absolute path of the root.
C5_ReturnsAbsolute ==
  ret # NoPath => ret.abs /\ ret.parts = RootKey

\* C5 (amended): build returns the path as project_name spells it, relative
\* when project_name is relative; anchored at the working directory it is
\* the root.
C5_ReturnsPathAsGiven ==
  ret # NoPath =>
    /\ ret.abs = project_name.abs
    /\ ret.parts = project_name.parts
    /\ absolute(ret).parts = RootKey

C5_Witness ==
  /\ ret # NoPath
  /\ ~project_name.abs
  /\ ~ret.abs
  /\ fs[RootKey].kind = "dir"

\* C6: in a run of main the .gitignore step runs only with the flag and only
\* after build has returned; a run with the flag that ends normally leaves
\* .gitignore equal to the template whatever it held; a run without the flag
\* leaves an existing .gitignore as it was and a new one empty.
C6_GitignoreStep ==
  /\ (rendered /\ caller = "main") =>
       /\ create_gitignore
       /\ ret # NoPath
       /\ pc \in {"ready", "idle", "raised"}
       /\ \A n \in 1..Len(additional_dirs) :
            LinesFor("additional", Div(ret, <<additional_dirs[n]>>)) # {}
  /\ (caller = "main" /\ pc = "idle" /\ create_gitignore) =>
       /\ rendered
       /\ fs[GitignoreKey] = File(gitignore_content)
  /\ (caller = "main" /\ pc = "idle" /\ ~create_gitignore) =>
       /\ ~rendered
       /\ pre[GitignoreKey].kind = "file" => fs[GitignoreKey] = pre[GitignoreKey]
       /\ pre[GitignoreKey].kind = "none" => fs[GitignoreKey] = File(<<>>)

C6_Witness ==
  /\ caller = "main"
  /\ pc = "idle"
  /\ create_gitignore
  /\ pre[GitignoreKey] = File(<<"*.secret">>)
  /\ fs[GitignoreKey] = File(gitignore_content)

\* C7: when a creation step of build fails, nothing later has run: every
\* entry that changed was created by a step that printed its line, no
\* summary has been printed, build has not returned, the .gitignore step has
\* not run; and everything created before the failure is still there.
C7_AbortStopsEverything ==
  BuildAborted =>
    /\ \A n \in 1..Len(out) : out[n].tag \notin SummaryTags
    /\ ret = NoPath
    /\ ~rendered
    /\ \A key \in Universe :
         fs[key] # pre[key] =>
           \E n \in 1..Len(out) :
             /\ out[n].tag \in ProgressTags \cup {"creating"}
             /\ IsPrefix(key, Resolve(out[n].path))
    /\ \A n \in 1..Len(out) :
         out[n].tag \in ProgressTags => fs[Resolve(out[n].path)].kind # "none"

\* C8: a successful build has printed exactly one line for each directory
\* of the table, each declared file and each additional directory, each
\* naming an entry that exists, and the summary lines come after all of them.
C8_SummaryLast ==
  BuildSucceeded =>
    /\ \A key \in DeclaredDirKeys \ {RootKey} :
         Cardinality({ n \in 1..Len(out) :
           out[n].tag = "dir" /\ Resolve(out[n].path) = key }) = 1
    /\ \A key \in DeclaredFileKeys :
         Cardinality({ n \in 1..Len(out) :
           out[n].tag = "file" /\ Resolve(out[n].path) = key }) = 1
    /\ \A key \in AdditionalKeys :
         Cardinality({ n \in 1..Len(out) :
           out[n].tag = "additional" /\ Resolve(out[n].path) = key }) = 1
    /\ \A n \in 1..Len(out) :
         out[n].tag \in ProgressTags => fs[Resolve(out[n].path)].kind # "none"
    /\ \A m, n \in 1..Len(out) :
         (out[m].tag \in SummaryTags /\ out[n].tag \in ProgressTags) => n < m

\* C9: in every state every entry has its parent directory; the inner loop
\* runs only in a directory that exists; and for the table in any of the
\* orders of Layouts, with or without the keys that only name a parent, a
\* build fails only on an entry that was in its way before the call and
\* otherwise ends in the one filesystem the set of declared paths determines.
C9_ParentClosed ==
  /\ ParentClosed(fs)
  /\ pc = "files" => is_dir(fs, RootKey \o Table[i].directory)
  /\ BuildSucceeded => fs = Expected(pre)
  /\ BuildAborted => Blocked(pre)

C9_Witness ==
  /\ layout = 3
  /\ BuildSucceeded
  /\ pre[DataKey].kind = "none"
  /\ pre[RootKey].kind = "dir"
  /\ fs[DataKey \o <<"raw">>].kind = "dir"

\* C10: no step removes an entry or changes its kind, and no step changes
\* the content of a file other than .gitignore; entries the table does not
\* declare stay exactly as they are.
C10_OnlyGrows ==
  [][\A key \in Universe :
       \/ fs'[key] = fs[key]
       \/ /\ key \in DeclaredKeys
          /\ \/ fs[key].kind = "none"
             \/ /\ key = GitignoreKey
                /\ fs[key].kind = "file"
                /\ fs'[key].kind = "file"]_vars

C10_Witness ==
  /\ calls = 2
  /\ pc = "idle"
  /\ rendered
  /\ fs[ScratchKey] = File(<<"x">>)
  /\ fs[ReadmeKey] = File(<<"hello">>)
  /\ fs[DataKey].kind = "dir"

====
